---- MODULE Spec2Model ----
(***************************************************************************)
(* Model of the thumbnail / event-image backfill scripts:                  *)
(*   generate_thumbnails.py            (ThumbnailGenerator)                *)
(*   generate_missing_images.py        (MissingImageGenerator)             *)
(*   generate_missing_images_limited.py (LimitedImageGenerator)            *)
(*   generate_missing_images_recent.py (RecentImageGenerator)              *)
(*   generate_missing_images_simple.py (SimpleImageGenerator)              *)
(*                                                                         *)
(* Three specifications share the module:                                  *)
(*   SpecImg  - one process_event call on one source asset, with the       *)
(*              transcoders (create_thumbnail, upscale_image,              *)
(*              _optimize_image_size) computed as the code computes them;  *)
(*   SpecScan - the bucket scanners over flat listings of blob names;      *)
(*   Spec     - a batch run: scan result, thread pool, counters, summary.  *)
(***************************************************************************)
EXTENDS Integers, Sequences, FiniteSets, TLC

VARIABLES
    \* ---- SpecImg: one pipeline call ----
    gen,              \* which script's generator object runs
    img,              \* the source asset stored for the event
    ceiling,          \* byte budget handed to the transcoder (target_size / max_file_size)
    ceiling2,         \* a second, not larger, budget for the same asset
    ipc,              \* "start" | "called" | "done"
    result,           \* transcoder output for ceiling
    result2,          \* transcoder output for ceiling2
    pipe,             \* what the process_event call did and returned
    uploads,          \* sequence of upload_from_string calls issued
    \* ---- SpecScan: the bucket and the scanner calls ----
    sgen,             \* which script's scanner runs
    storage,          \* the blob names in the bucket
    max_events,       \* cap of the recent and simple scanners
    spc,              \* "start" | "scanned" | "rescanned"
    scan1,            \* what the first scanner call saw and returned
    scan2,            \* what the second scanner call saw and returned
    wrote,            \* events whose target object was uploaded between the calls
    created,          \* time_created of the thumbnail objects of the bucket
    utc_offset,       \* local time of the host minus UTC
    \* ---- Spec: one batch run on the thread pool ----
    n_events,         \* number of events the scan selected for the batch
    max_workers,      \* size of the ThreadPoolExecutor
    tasks,            \* per submitted process_event call: position and locals
    completed,        \* futures the as_completed loop has taken
    run,              \* "main" | "scan" | "pool" | "summary" | "exit"
    firebase,         \* "none" | "ok" | "raised": how __init__'s Firebase initialisation went
    listing,          \* what the scan of the run found and whether it raised
    io,               \* a listing, download or upload has been issued
    summary_logged,   \* the final summary has been logged
    exit_status,      \* exit status of the process once run = "exit"
    \* ---- counters of the generator object (all specifications) ----
    processed_count,
    skipped_count,
    error_count

imgVars == <<gen, img, ceiling, ceiling2, ipc, result, result2, pipe, uploads>>
cntVars == <<processed_count, skipped_count, error_count>>
scanVars == <<sgen, storage, max_events, spc, scan1, scan2, wrote, created, utc_offset>>
mainVars == <<firebase, listing, summary_logged, exit_status>>
runVars == <<n_events, max_workers, tasks, completed, run, io, mainVars>>
vars == <<imgVars, scanVars, runVars, cntVars>>

(***************************************************************************)
(* Program constants of the transcoders.                                   *)
(***************************************************************************)
max_dimension == 400
MinThumbSide == 100
ThumbStartQuality == 85
ThumbFinalQuality == 15
ThumbDefaultTarget == 64512
TargetBox == 800
DefaultMaxFileSize == 1048576
RecentStartQuality == 95
RecentResetQuality == 80
RecentFinalQuality == 30
RecentTailQuality == 60
SimpleStartQuality == 85
SimpleResetQuality == 75
SimpleTailQuality == 70

Generators == {"thumbnails", "missing", "limited", "recent", "simple"}
BudgetGenerators == {"thumbnails", "recent", "simple"}

Min2(a, b) == IF a <= b THEN a ELSE b
Max2(a, b) == IF a >= b THEN a ELSE b

(***************************************************************************)
(* Floating point.  The code computes aspect_ratio = W / H as a double and *)
(* truncates n / aspect_ratio and n * aspect_ratio with int().  For most   *)
(* inputs this is floor(n*H/W) resp. floor(n*W/H); when the exact quotient *)
(* is an integer the double result can fall just below it and int() then   *)
(* yields one less.  DivSlips / MulSlips list the <<n, W, H>> of the       *)
(* modelled input domain where CPython's double arithmetic does so.        *)
(***************************************************************************)
DivSlips == {<<250, 250, 60>>, <<250, 250, 120>>}
MulSlips == {<<333, 250, 333>>}

\* int(n / (W / H))
IntDivAspect(n, W, H) ==
    ((n * H) \div W) - (IF <<n, W, H>> \in DivSlips THEN 1 ELSE 0)

\* int(n * (W / H))
IntMulAspect(n, W, H) ==
    ((n * W) \div H) - (IF <<n, W, H>> \in MulSlips THEN 1 ELSE 0)

(***************************************************************************)
(* Scale factors.  A scale is kept in tenths t (10 = 1.0).  The loops      *)
(* reach their values by repeated "-= 0.1" from 1.0, which gives doubles   *)
(* a little above t/10 (0.30000000000000016 for t = 3), so that            *)
(* "scale > 0.3" is still true at t = 3 and "scale > 0.5" at t = 5.        *)
(* int(n * scale) equals floor(n*t/10) for every n <= 1600 at those        *)
(* values; the one exception is the literal 0.7 the recent variant starts  *)
(* its last loop with, whose double lies below 7/10.                       *)
(***************************************************************************)
Literal07Slips == {90, 170, 180, 330, 340, 350, 360,
                   650, 660, 670, 680, 690, 700, 710, 720, 730}

\* int(n * scale) for a scale reached by subtraction from 1.0, 0.7 or 0.6
TruncScale(n, t) == (n * t) \div 10

\* int(n * 0.7) for the literal 0.7
TruncLiteral07(n) == ((n * 7) \div 10) - (IF n \in Literal07Slips THEN 1 ELSE 0)

\* "scale > lim/10" evaluated on the doubles the loops produce
ScaleGtZero(t, lim) == t >= 1
ScaleGt(t, lim) == t >= lim

(***************************************************************************)
(* The encoder (Pillow's Image.save) is outside the repository.  It is     *)
(* modelled as a deterministic size function of the pixel count and, for   *)
(* JPEG, of the quality: non-decreasing in both.  An asset carries its     *)
(* own compressibility: png = PNG bytes per 100 pixels, ja + jb*q = JPEG   *)
(* bytes per 10000 pixels at quality q, jc*q = JPEG bytes that do not      *)
(* depend on the area (32-bit safe for 800 x 800).                         *)
(***************************************************************************)
PngHeaderBytes == 100
JpegHeaderBytes == 600

PngSize(i, w, h) == PngHeaderBytes + ((w * h * i.png) \div 100)
JpegSize(i, w, h, q) ==
    JpegHeaderBytes + ((((w * h) \div 100) * (i.ja + i.jb * q)) \div 100)
        + i.jc * q

\* first bytes of the two encodings
PngSignature == <<137, 80, 78>>
JpegSOI == <<255, 216, 255>>

NoneResult == [kind |-> "None", w |-> 0, h |-> 0, q |-> 0, t |-> 0,
               len |-> 0, head |-> <<>>, step |-> 0, exit |-> "none"]

\* bytes returned after `step` encode attempts
Encoded(kind, w, h, q, t, len, step, exit) ==
    [kind |-> kind, w |-> w, h |-> h, q |-> q, t |-> t, len |-> len,
     head |-> IF kind = "JPEG" THEN JpegSOI ELSE PngSignature,
     step |-> step, exit |-> exit]

(***************************************************************************)
(* ThumbnailGenerator.create_thumbnail                                     *)
(***************************************************************************)
\* new_width, new_height of the first resize (max dimension 400, never enlarged)
ThumbDimsUncapped(i) == <<i.W, i.H>>
ThumbDims(i) ==
    IF i.W >= i.H
    THEN LET nw == Min2(max_dimension, i.W) IN <<nw, IntDivAspect(nw, i.W, i.H)>>
    ELSE LET nh == Min2(max_dimension, i.H) IN <<IntMulAspect(nh, i.W, i.H), nh>>

\* Image.resize raises ValueError for a size with a zero side
ResizeRaises(width, height) == width = 0 \/ height = 0

\* "Final attempt with very low quality": returned without a size check
ThumbFinalNone(i, nw, nh, n) == NoneResult
ThumbFinal(i, nw, nh, n) ==
    LET final_width == Max2(MinThumbSide, nw \div 2)
        final_height == Max2(MinThumbSide, nh \div 2)
    IN  Encoded("JPEG", final_width, final_height, ThumbFinalQuality, 5,
                JpegSize(i, final_width, final_height, ThumbFinalQuality),
                n + 1, "final")

\* an accepted candidate of the search loops: size <= budget
FitsAlways(size, budget) == TRUE
FitsInverted(size, budget) == size >= budget
Fits(size, budget) == size <= budget

\* states of the search loops: <<quality, scale in tenths, encode attempts made>>
LoopStates == (0 .. 100) \X (0 .. 10) \X (0 .. 200)
ScaleStates == (0 .. 10) \X (0 .. 200)

\* "dimension_scale -= 0.1; quality = <reset>": the loop goes on at the next scale
ReduceScale(n) == [NoneResult EXCEPT !.kind = "Reduce", !.step = n]

\* the while loop of create_thumbnail from the state (quality, t) after n
\* encode attempts.  Iter is the run of iterations at one scale, ending in a
\* return, in the break or in the scale reduction; AtScale strings the scales.
ThumbLoop(i, nw, nh, target, quality0, t0, n0) ==
    LET Iter[s \in LoopStates] ==
            LET quality == s[1]
                t == s[2]
                n == s[3]
                current_width == TruncScale(nw, t)
                current_height == TruncScale(nh, t)
                png_size == PngSize(i, current_width, current_height)
                jpeg_size == JpegSize(i, current_width, current_height, quality)
            IN  IF ~(quality > 15 /\ ScaleGt(t, 3))
                THEN ThumbFinal(i, nw, nh, n)
                ELSE IF current_width < MinThumbSide \/ current_height < MinThumbSide
                THEN ThumbFinal(i, nw, nh, n)
                ELSE IF Fits(png_size, target)
                THEN Encoded("PNG", current_width, current_height, 0, t,
                             png_size, n + 1, "loop")
                ELSE IF Fits(jpeg_size, target)
                THEN Encoded("JPEG", current_width, current_height, quality, t,
                             jpeg_size, n + 2, "loop")
                ELSE IF quality > 50
                THEN Iter[<<quality - 10, t, n + 2>>]
                ELSE IF quality > 25
                THEN Iter[<<quality - 5, t, n + 2>>]
                ELSE ReduceScale(n + 2)
        AtScale[s \in LoopStates] ==
            LET r == Iter[s]
            IN  IF r.kind = "Reduce"
                THEN AtScale[<<ThumbStartQuality, s[2] - 1, r.step>>]
                ELSE r
    IN  AtScale[<<quality0, t0, n0>>]

\* Image.open raises on undecodable data, the first resize on a zero side:
\* the except clause returns None
create_thumbnail(i, target_size) ==
    IF ~i.ok THEN NoneResult
    ELSE LET d == ThumbDims(i)
         IN  IF ResizeRaises(d[1], d[2]) THEN NoneResult
             ELSE ThumbLoop(i, d[1], d[2], target_size, ThumbStartQuality, 10, 0)

(***************************************************************************)
(* upscale_image: target dimensions inside the 800 x 800 box               *)
(***************************************************************************)
UpscaleDimsOfInput(i) == <<i.W, i.H>>
UpscaleDims(i) ==
    IF i.W >= i.H
    THEN LET nw == Min2(TargetBox, IntMulAspect(TargetBox, i.W, i.H))
         IN  <<nw, IntDivAspect(nw, i.W, i.H)>>
    ELSE LET nh == Min2(TargetBox, IntDivAspect(TargetBox, i.W, i.H))
         IN  <<IntMulAspect(nh, i.W, i.H), nh>>

\* MissingImageGenerator / LimitedImageGenerator: PNG, no byte budget
upscale_image_png(i) ==
    IF ~i.ok THEN NoneResult
    ELSE LET d == UpscaleDims(i)
         IN  IF ResizeRaises(d[1], d[2]) THEN NoneResult
             ELSE Encoded("PNG", d[1], d[2], 0, 10, PngSize(i, d[1], d[2]), 1, "png")

(***************************************************************************)
(* RecentImageGenerator._optimize_image_size                               *)
(***************************************************************************)
\* last loop: scale 0.7 (literal), 0.6, ... while > 0.3, JPEG quality 60
RecentTail(i, max_size, width, height, t0, n0) ==
    LET Shrink[s \in ScaleStates] ==
            LET t == s[1]
                n == s[2]
                scaled_width == IF t = 7 THEN TruncLiteral07(width)
                                ELSE TruncScale(width, t)
                scaled_height == IF t = 7 THEN TruncLiteral07(height)
                                 ELSE TruncScale(height, t)
                size == JpegSize(i, scaled_width, scaled_height, RecentTailQuality)
            IN  IF ~ScaleGt(t, 3)
                THEN [NoneResult EXCEPT !.step = n]
                ELSE IF Fits(size, max_size)
                THEN Encoded("JPEG", scaled_width, scaled_height,
                             RecentTailQuality, t, size, n + 1, "tail")
                ELSE Shrink[<<t - 1, n + 1>>]
    IN  Shrink[<<t0, n0>>]

\* "Final attempt with very low quality but original size", then the last loop
RecentFinal(i, max_size, width, height, n) ==
    LET final_size == JpegSize(i, width, height, RecentFinalQuality)
    IN  IF Fits(final_size, max_size)
        THEN Encoded("JPEG", width, height, RecentFinalQuality, 10,
                     final_size, n + 1, "final")
        ELSE RecentTail(i, max_size, width, height, 7, n + 1)

\* the while loop over (quality, scale_factor)
RecentLoop(i, max_size, width, height, quality0, t0, n0) ==
    LET Iter[s \in LoopStates] ==
            LET quality == s[1]
                t == s[2]
                n == s[3]
                scaled_width == IF t < 10 THEN TruncScale(width, t) ELSE width
                scaled_height == IF t < 10 THEN TruncScale(height, t) ELSE height
                jpeg_size == JpegSize(i, scaled_width, scaled_height, quality)
            IN  IF ~(quality > 30 /\ ScaleGt(t, 5))
                THEN RecentFinal(i, max_size, width, height, n)
                ELSE IF Fits(jpeg_size, max_size)
                THEN Encoded("JPEG", scaled_width, scaled_height, quality, t,
                             jpeg_size, n + 1, "loop")
                ELSE IF quality > 70
                THEN Iter[<<quality - 10, t, n + 1>>]
                ELSE IF quality > 50
                THEN Iter[<<quality - 5, t, n + 1>>]
                ELSE ReduceScale(n + 1)
        AtScale[s \in LoopStates] ==
            LET r == Iter[s]
            IN  IF r.kind = "Reduce"
                THEN AtScale[<<RecentResetQuality, s[2] - 1, r.step>>]
                ELSE r
    IN  AtScale[<<quality0, t0, n0>>]

optimize_image_size_recent(i, max_size, width, height) ==
    LET png_size == PngSize(i, width, height)
    IN  IF Fits(png_size, max_size)
        THEN Encoded("PNG", width, height, 0, 10, png_size, 1, "png")
        ELSE RecentLoop(i, max_size, width, height, RecentStartQuality, 10, 1)

(***************************************************************************)
(* SimpleImageGenerator._optimize_image_size                               *)
(***************************************************************************)
\* "Final attempt with aggressive scaling": 0.6, 0.5, ... while > 0.3, quality 70
SimpleTail(i, max_size, width, height, t0, n0) ==
    LET Shrink[s \in ScaleStates] ==
            LET t == s[1]
                n == s[2]
                scaled_width == TruncScale(width, t)
                scaled_height == TruncScale(height, t)
                size == JpegSize(i, scaled_width, scaled_height, SimpleTailQuality)
            IN  IF ~ScaleGt(t, 3)
                THEN [NoneResult EXCEPT !.step = n]
                ELSE IF Fits(size, max_size)
                THEN Encoded("JPEG", scaled_width, scaled_height,
                             SimpleTailQuality, t, size, n + 1, "tail")
                ELSE Shrink[<<t - 1, n + 1>>]
    IN  Shrink[<<t0, n0>>]

\* the while loop over (quality, scale_factor)
SimpleLoop(i, max_size, width, height, quality0, t0, n0) ==
    LET Iter[s \in LoopStates] ==
            LET quality == s[1]
                t == s[2]
                n == s[3]
                scaled_width == IF t < 10 THEN TruncScale(width, t) ELSE width
                scaled_height == IF t < 10 THEN TruncScale(height, t) ELSE height
                jpeg_size == JpegSize(i, scaled_width, scaled_height, quality)
            IN  IF ~(quality > 30 /\ ScaleGt(t, 5))
                THEN SimpleTail(i, max_size, width, height, 6, n)
                ELSE IF Fits(jpeg_size, max_size)
                THEN Encoded("JPEG", scaled_width, scaled_height, quality, t,
                             jpeg_size, n + 1, "loop")
                ELSE IF quality > 60
                THEN Iter[<<quality - 10, t, n + 1>>]
                ELSE IF quality > 45
                THEN Iter[<<quality - 5, t, n + 1>>]
                ELSE ReduceScale(n + 1)
        AtScale[s \in LoopStates] ==
            LET r == Iter[s]
            IN  IF r.kind = "Reduce"
                THEN AtScale[<<SimpleResetQuality, s[2] - 1, r.step>>]
                ELSE r
    IN  AtScale[<<quality0, t0, n0>>]

optimize_image_size_simple(i, max_size, width, height) ==
    LET png_size == PngSize(i, width, height)
    IN  IF Fits(png_size, max_size)
        THEN Encoded("PNG", width, height, 0, 10, png_size, 1, "png")
        ELSE SimpleLoop(i, max_size, width, height, SimpleStartQuality, 10, 1)

\* RecentImageGenerator / SimpleImageGenerator upscale_image: "if result: ... else None"
upscale_image_recent(i, max_file_size) ==
    IF ~i.ok THEN NoneResult
    ELSE LET d == UpscaleDims(i)
             r == optimize_image_size_recent(i, max_file_size, d[1], d[2])
         IN  IF ResizeRaises(d[1], d[2]) THEN NoneResult
             ELSE IF r.kind # "None" THEN r ELSE NoneResult

upscale_image_simple(i, max_file_size) ==
    IF ~i.ok THEN NoneResult
    ELSE LET d == UpscaleDims(i)
             r == optimize_image_size_simple(i, max_file_size, d[1], d[2])
         IN  IF ResizeRaises(d[1], d[2]) THEN NoneResult
             ELSE IF r.kind # "None" THEN r ELSE NoneResult

\* the transcoder of generator g
Transcode(g, i, budget) ==
    CASE g = "thumbnails" -> create_thumbnail(i, budget)
      [] g = "recent" -> upscale_image_recent(i, budget)
      [] g = "simple" -> upscale_image_simple(i, budget)
      [] OTHER -> upscale_image_png(i)

(***************************************************************************)
(* Uploaders.  Bytes are known by their first bytes and their length.      *)
(***************************************************************************)
StartsWith(data, prefix) ==
    /\ Len(data.head) >= Len(prefix)
    /\ SubSeq(data.head, 1, Len(prefix)) = prefix

\* upload_thumbnail, SimpleImageGenerator.upload_image: magic-byte sniff
SniffContentType(data) ==
    IF StartsWith(data, JpegSOI) THEN "image/jpeg" ELSE "image/png"

\* upload_image of the missing, limited and recent generators: "Upload as PNG"
FixedContentType(data) == "image/png"

ContentTypeOf(g, data) ==
    IF g \in {"thumbnails", "simple"} THEN SniffContentType(data)
    ELSE FixedContentType(data)

\* last path segment of the object a generator writes
TargetFileOverSource(g) ==
    IF g = "thumbnails" THEN "event_image.png" ELSE "event_thumbnail.png"
TargetFile(g) == IF g = "thumbnails" THEN "event_thumbnail.png" ELSE "event_image.png"

\* the one upload_from_string call of an upload
UploadCall(g, event_id, data) ==
    [event |-> event_id, file |-> TargetFile(g),
     content_type |-> ContentTypeOf(g, data), data |-> data]

(***************************************************************************)
(* Blob names.  A name is the sequence of its maximal slash-free pieces    *)
(* and of the "/" between them: "events/e1/event_image.png" is             *)
(* <<"events", "/", "e1", "/", "event_image.png">>, the folder placeholder *)
(* "events/" is <<"events", "/">>.                                         *)
(***************************************************************************)
Slash == "/"

SlashPositions(name) == {k \in 1 .. Len(name) : name[k] = Slash}

\* position of the j-th "/" of name; 0 for j = 0, Len(name) + 1 past the last
SlashAt(name, j) ==
    LET ps == SlashPositions(name)
    IN  IF j = 0 THEN 0
        ELSE IF j > Cardinality(ps) THEN Len(name) + 1
        ELSE CHOOSE q \in ps : Cardinality({x \in ps : x < q}) = j - 1

\* blob.name.split('/'): one segment more than slashes, "" between adjacent ones
Split(name) ==
    [j \in 1 .. (Cardinality(SlashPositions(name)) + 1) |->
        IF SlashAt(name, j) - SlashAt(name, j - 1) = 1 THEN ""
        ELSE name[SlashAt(name, j - 1) + 1]]

\* f"{collection}/{event_id}/{filename}"
BlobPath(collection, event_id, filename) ==
    <<collection, Slash, event_id, Slash, filename>>

ImageFiles == {"event_image.png", "event_image.jpg"}
ThumbnailFiles == {"event_thumbnail.png", "event_thumbnail.jpg"}

\* list_blobs(prefix=f"{collection}/") keeps the names that start with the prefix
HasPrefix(name, collection) ==
    Len(name) >= 2 /\ name[1] = collection /\ name[2] = Slash

\* the orders in which a listing can deliver the set S of names
Listings(S) ==
    {f \in [1 .. Cardinality(S) -> S] : \A a, b \in DOMAIN f : a # b => f[a] # f[b]}

Reverse(seq) == [k \in 1 .. Len(seq) |-> seq[Len(seq) + 1 - k]]

SeqRange(seq) == {seq[k] : k \in 1 .. Len(seq)}

\* "if len(path_parts) >= 3"
EnoughParts(parts) == Len(parts) >= 3

\* filename = path_parts[2] (zero-based)
FileNameLast(parts) == parts[Len(parts)]
FileNameOf(parts) == parts[3]

NewRecord == [has_image |-> FALSE, has_thumbnail |-> FALSE]

\* "if event_id not in events: events[event_id] = {...}"
EnsureRecordAlways(events, event_id) ==
    [x \in (DOMAIN events) \cup {event_id} |->
        IF x = event_id THEN NewRecord ELSE events[x]]
EnsureRecord(events, event_id) ==
    IF event_id \in DOMAIN events THEN events
    ELSE [x \in (DOMAIN events) \cup {event_id} |->
            IF x = event_id THEN NewRecord ELSE events[x]]

\* the has_image / has_thumbnail assignments of the grouping loops
SetFlags(events, event_id, filename) ==
    IF filename \in ImageFiles
    THEN [events EXCEPT ![event_id].has_image = TRUE]
    ELSE IF filename \in ThumbnailFiles
    THEN [events EXCEPT ![event_id].has_thumbnail = TRUE]
    ELSE events

EmptyDict == [x \in {} |-> NewRecord]

\* what a scanner call leaves: the ids returned (a list), the ids it grouped,
\* and whether the except clause ran
ScanResult(sel, events, failed) ==
    [sel |-> sel, ids |-> DOMAIN events, events |-> events, failed |-> failed]
NoScan == ScanResult(<<>>, EmptyDict, FALSE)
\* "except Exception: return []"
FailedScan == ScanResult(<<>>, EmptyDict, TRUE)

(***************************************************************************)
(* ThumbnailGenerator.get_events_needing_thumbnails                        *)
(***************************************************************************)
\* body of "for blob in blobs": st = <<events dict, ids in insertion order>>
GroupStep(st, name) ==
    LET path_parts == Split(name)
    IN  IF EnoughParts(path_parts)
        THEN LET event_id == path_parts[2]
                 filename == FileNameOf(path_parts)
                 ev == EnsureRecord(st[1], event_id)
             IN  <<SetFlags(ev, event_id, filename),
                   IF event_id \in DOMAIN st[1] THEN st[2]
                   ELSE Append(st[2], event_id)>>
        ELSE st

get_events_needing_thumbnails(blobs) ==
    LET G[k \in 0 .. Len(blobs)] ==
            IF k = 0 THEN <<EmptyDict, <<>>>> ELSE GroupStep(G[k - 1], blobs[k])
        events == G[Len(blobs)][1]
        order == G[Len(blobs)][2]
        Needs(event_id) ==
            events[event_id].has_image /\ ~events[event_id].has_thumbnail
    IN  ScanResult(SelectSeq(order, Needs), events, FALSE)

(***************************************************************************)
(* EventCounter.count_events_needing_images                                *)
(***************************************************************************)
\* the four "sum(1 for e in events.values() if ...)" categories
WithBoth(e) == e.has_image /\ e.has_thumbnail
OnlyImage(e) == e.has_image /\ ~e.has_thumbnail
AnyThumbnail(e) == e.has_thumbnail
OnlyThumbnail(e) == ~e.has_image /\ e.has_thumbnail
WithNeither(e) == ~e.has_image /\ ~e.has_thumbnail

\* st = events dict
CountStep(st, name) ==
    LET path_parts == Split(name)
    IN  IF EnoughParts(path_parts)
        THEN SetFlags(EnsureRecord(st, path_parts[2]), path_parts[2],
                      FileNameOf(path_parts))
        ELSE st

\* what the call computed and what it returned
CountResult(events, failed, returned) ==
    ScanResult(<<>>, events, failed) @@
    [total_events |-> Cardinality(DOMAIN events),
     events_with_both |-> Cardinality({x \in DOMAIN events : WithBoth(events[x])}),
     events_with_only_image |->
        Cardinality({x \in DOMAIN events : OnlyImage(events[x])}),
     events_with_only_thumbnail |->
        Cardinality({x \in DOMAIN events : OnlyThumbnail(events[x])}),
     events_with_neither |->
        Cardinality({x \in DOMAIN events : WithNeither(events[x])}),
     returned |-> returned]

\* "except Exception: return 0"
CountFailed == CountResult(EmptyDict, TRUE, 0)

count_events_needing_images(blobs) ==
    LET G[k \in 0 .. Len(blobs)] ==
            IF k = 0 THEN EmptyDict ELSE CountStep(G[k - 1], blobs[k])
        events == G[Len(blobs)]
    IN  CountResult(events, FALSE,
                    Cardinality({x \in DOMAIN events : OnlyThumbnail(events[x])}))

(***************************************************************************)
(* check_event_has_image (recent and simple): blob.exists() for .png and   *)
(* then .jpg; raise_at = 0: no call raises, 1 or 2: that call raises and   *)
(* the except clause returns False.                                        *)
(***************************************************************************)
check_event_has_image(bucket, collection, event_id, raise_at) ==
    IF raise_at = 1 THEN FALSE
    ELSE IF BlobPath(collection, event_id, "event_image.png") \in bucket THEN TRUE
    ELSE IF raise_at = 2 THEN FALSE
    ELSE BlobPath(collection, event_id, "event_image.jpg") \in bucket

(***************************************************************************)
(* SimpleImageGenerator.get_events_needing_images                          *)
(***************************************************************************)
\* st = <<events dict, events_needing_images>>; raises: event id -> raise_at
SimpleStep(st, name, bucket, collection, cap, raises) ==
    LET path_parts == Split(name)
    IN  IF Len(st[2]) >= cap THEN st
        ELSE IF EnoughParts(path_parts)
        THEN LET event_id == path_parts[2]
                 filename == FileNameOf(path_parts)
                 ev == EnsureRecord(st[1], event_id)
                 ev2 == SetFlags(ev, event_id, filename)
             IN  IF filename \in ThumbnailFiles /\ ~ev[event_id].has_image
                    /\ ~check_event_has_image(bucket, collection, event_id,
                                              raises[event_id])
                 THEN <<ev2, Append(st[2], event_id)>>
                 ELSE <<ev2, st[2]>>
        ELSE st

get_events_needing_images_simple(blobs, bucket, collection, cap, raises) ==
    LET G[k \in 0 .. Len(blobs)] ==
            IF k = 0 THEN <<EmptyDict, <<>>>>
            ELSE SimpleStep(G[k - 1], blobs[k], bucket, collection, cap, raises)
    IN  ScanResult(G[Len(blobs)][2], G[Len(blobs)][1], FALSE)

(***************************************************************************)
(* RecentImageGenerator.get_recent_events_needing_images                   *)
(***************************************************************************)
\* "if found_count >= max_events: break"
CapNeverReached(found_count, cap) == FALSE
CapReached(found_count, cap) == found_count >= cap

\* st = <<events_checked (as a dict), events_needing_images, the existence
\* checks issued as <<event id, has_image>>, the blobs examined>>
RecentStep(st, name, bucket, collection, cap, raises) ==
    LET path_parts == Split(name)
        examined == st[4] + 1
    IN  IF CapReached(Len(st[2]), cap) THEN st
        ELSE IF EnoughParts(path_parts)
        THEN LET event_id == path_parts[2]
                 filename == FileNameOf(path_parts)
                 has_image == check_event_has_image(bucket, collection, event_id,
                                                    raises[event_id])
             IN  IF event_id \in DOMAIN st[1] THEN <<st[1], st[2], st[3], examined>>
                 ELSE IF filename \in ThumbnailFiles
                 THEN <<EnsureRecord(st[1], event_id),
                        IF ~has_image THEN Append(st[2], event_id) ELSE st[2],
                        Append(st[3], <<event_id, has_image>>),
                        examined>>
                 ELSE <<st[1], st[2], st[3], examined>>
        ELSE <<st[1], st[2], st[3], examined>>

get_recent_events_needing_images(blobs, bucket, collection, cap, raises) ==
    LET rev == Reverse(blobs)
        G[k \in 0 .. Len(rev)] ==
            IF k = 0 THEN <<EmptyDict, <<>>, <<>>, 0>>
            ELSE RecentStep(G[k - 1], rev[k], bucket, collection, cap, raises)
        end == G[Len(rev)]
    IN  ScanResult(end[2], end[1], FALSE) @@ [checks |-> end[3], examined |-> end[4]]

(***************************************************************************)
(* Object creation times.  time_created is a timezone-aware datetime,      *)
(* modelled as a positive integer; 0 stands for None.  The time-windowed   *)
(* scanner strips the zone and compares with the naive cutoff_date; the    *)
(* top-K scanner stores the aware value, or the naive datetime(2020, 1, 1) *)
(* when the reload raises.  Ordering an aware against a naive datetime     *)
(* raises TypeError.  An aware value is the UTC reading of its instant,    *)
(* and replace(tzinfo=None) keeps that reading; datetime.now() is the      *)
(* host's local reading of the present instant.                            *)
(***************************************************************************)
NoTime == 0
NaiveDefaultDate == -1

\* the present instant (UTC reading) and months_back * 30 days
UtcNow == 5
WindowLength == 3

\* datetime.now() on a host whose local time is UTC + offset
datetime_now(offset) == UtcNow + offset

\* blob.time_created.replace(tzinfo=None)
StripZone(d) == d

\* cutoff_date = datetime.now() - timedelta(days=months_back * 30)
cutoff_date(offset) == datetime_now(offset) - WindowLength

IsAware(d) == d > 0
IsNaive(d) == d = NaiveDefaultDate

(***************************************************************************)
(* MissingImageGenerator.get_events_needing_images (time-windowed)         *)
(***************************************************************************)
\* st = <<events dict, ids in insertion order, recent_events>>
MissingStep(st, name, times, offset) ==
    LET path_parts == Split(name)
    IN  IF EnoughParts(path_parts)
        THEN LET event_id == path_parts[2]
                 filename == FileNameOf(path_parts)
                 ev == EnsureRecord(st[1], event_id)
                 is_recent == /\ filename \in ThumbnailFiles
                              /\ times[name] # NoTime
                              /\ StripZone(times[name]) >= cutoff_date(offset)
             IN  <<SetFlags(ev, event_id, filename),
                   IF event_id \in DOMAIN st[1] THEN st[2]
                   ELSE Append(st[2], event_id),
                   IF is_recent THEN st[3] \cup {event_id} ELSE st[3]>>
        ELSE st

\* reload_raises: the listed thumbnail blobs whose blob.reload() raises; one
\* of them sends the whole scan into the except clause
get_events_needing_images_missing(blobs, times, reload_raises, offset) ==
    LET G[k \in 0 .. Len(blobs)] ==
            IF k = 0 THEN <<EmptyDict, <<>>, {}>>
            ELSE MissingStep(G[k - 1], blobs[k], times, offset)
        events == G[Len(blobs)][1]
        order == G[Len(blobs)][2]
        recent_events == G[Len(blobs)][3]
        Needs(event_id) ==
            /\ event_id \in recent_events
            /\ events[event_id].has_thumbnail
            /\ ~events[event_id].has_image
    IN  IF reload_raises # {} THEN FailedScan
        ELSE ScanResult(SelectSeq(order, Needs), events, FALSE)

(***************************************************************************)
(* LimitedImageGenerator.get_events_needing_images (top-K newest)          *)
(***************************************************************************)
NewDatedRecord ==
    [has_image |-> FALSE, has_thumbnail |-> FALSE, thumbnail_date |-> NoTime]

\* st = <<events dict, ids in insertion order>>
LimitedStep(st, name, times, reload_raises) ==
    LET path_parts == Split(name)
    IN  IF EnoughParts(path_parts)
        THEN LET event_id == path_parts[2]
                 filename == FileNameOf(path_parts)
                 ev == IF event_id \in DOMAIN st[1] THEN st[1]
                       ELSE [x \in (DOMAIN st[1]) \cup {event_id} |->
                               IF x = event_id THEN NewDatedRecord ELSE st[1][x]]
                 ev2 == IF filename \in ImageFiles
                        THEN [ev EXCEPT ![event_id].has_image = TRUE]
                        ELSE IF filename \in ThumbnailFiles
                        THEN [ev EXCEPT
                                ![event_id].has_thumbnail = TRUE,
                                ![event_id].thumbnail_date =
                                    IF name \in reload_raises THEN NaiveDefaultDate
                                    ELSE IF times[name] # NoTime THEN times[name]
                                    ELSE @]
                        ELSE ev
             IN  <<ev2, IF event_id \in DOMAIN st[1] THEN st[2]
                        ELSE Append(st[2], event_id)>>
        ELSE st

\* list.sort(key=date, reverse=True): stable, so equal dates keep their order
SortNewestFirst(pairs) ==
    LET n == Len(pairs)
        Place(i) == 1 + Cardinality({j \in 1 .. n : pairs[j][2] > pairs[i][2]})
                      + Cardinality({j \in 1 .. (i - 1) : pairs[j][2] = pairs[i][2]})
    IN  [k \in 1 .. n |-> pairs[CHOOSE i \in 1 .. n : Place(i) = k]]

\* the sort compares an aware with a naive datetime: TypeError, caught by the
\* except clause of the scan
SortRaises(pairs) ==
    \E a, b \in 1 .. Len(pairs) : IsAware(pairs[a][2]) /\ IsNaive(pairs[b][2])

\* events_with_dates[:max_events]
TakeFirst(seq, k) == [j \in 1 .. Min2(k, Len(seq)) |-> seq[j]]

get_events_needing_images_limited(blobs, cap, times, reload_raises) ==
    LET G[k \in 0 .. Len(blobs)] ==
            IF k = 0 THEN <<EmptyDict, <<>>>>
            ELSE LimitedStep(G[k - 1], blobs[k], times, reload_raises)
        events == G[Len(blobs)][1]
        order == G[Len(blobs)][2]
        Dated(event_id) ==
            /\ events[event_id].has_thumbnail
            /\ ~events[event_id].has_image
            /\ events[event_id].thumbnail_date # NoTime
        cands == SelectSeq(order, Dated)
        events_with_dates ==
            [k \in 1 .. Len(cands) |-> <<cands[k], events[cands[k]].thumbnail_date>>]
        sorted == SortNewestFirst(events_with_dates)
    IN  IF SortRaises(events_with_dates) THEN ScanResult(<<>>, events, TRUE)
        ELSE ScanResult([k \in 1 .. Len(TakeFirst(sorted, cap)) |->
                            TakeFirst(sorted, cap)[k][1]],
                        events, FALSE)

\* the scanner variables while another specification runs
ScanIdle ==
    /\ sgen = "thumbnails"
    /\ storage = {}
    /\ max_events = 1
    /\ spc = "idle"
    /\ scan1 = NoScan
    /\ scan2 = NoScan
    /\ wrote = {}
    /\ created = <<>>
    /\ utc_offset = 0

\* the batch variables while another specification runs
RunIdle ==
    /\ n_events = 0
    /\ max_workers = 1
    /\ tasks = <<>>
    /\ completed = 0
    /\ run = "idle"
    /\ firebase = "none"
    /\ listing = [found |-> 0, raised |-> FALSE]
    /\ io = FALSE
    /\ summary_logged = FALSE
    /\ exit_status = 0

(***************************************************************************)
(* SpecImg: one asset, two budgets, one process_event call.                *)
(***************************************************************************)
Dims == {60, 100, 120, 250, 333, 400, 1000, 1600}
Encodings == {[png |-> 5, ja |-> 500, jb |-> 100, jc |-> 0],
              [png |-> 150, ja |-> 500, jb |-> 100, jc |-> 0],
              [png |-> 300, ja |-> 0, jb |-> 1, jc |-> 1000],
              [png |-> 300, ja |-> 1000, jb |-> 300, jc |-> 0]}
Images ==
    {[W |-> w, H |-> h, ok |-> TRUE, png |-> e.png, ja |-> e.ja, jb |-> e.jb,
      jc |-> e.jc] :
        w \in Dims, h \in Dims, e \in Encodings}
    \cup {[W |-> 400, H |-> 400, ok |-> FALSE, png |-> 150, ja |-> 500, jb |-> 100,
            jc |-> 0]}
    \cup {[W |-> w, H |-> 1, ok |-> TRUE, png |-> 150, ja |-> 500, jb |-> 100,
            jc |-> 0] : w \in {1000, 1600}}
Ceilings == {0, 1000, 5000, 20000, 40000, 53500, ThumbDefaultTarget, 100000, 200000, 400000,
             700000, DefaultMaxFileSize}

DownloadOutcomes == {"ok", "absent", "empty", "raise"}
UploadOutcomes == {"ok", "raise"}

NoPipe ==
    [dl |-> "none", data |-> NoneResult, up |-> "none", ret |-> FALSE, calls |-> <<>>]

\* the stage calls process_event makes, in order: each "if not ...: return
\* False" ends the call before the next stage
StageCallsAll(dl, data) == <<"download", "transcode", "upload">>
StageCalls(dl, data) ==
    IF dl # "ok" THEN <<"download">>
    ELSE IF data.kind = "None" THEN <<"download", "transcode">>
    ELSE <<"download", "transcode", "upload">>

ImgIdle ==
    /\ gen = "thumbnails"
    /\ img = [W |-> 400, H |-> 400, ok |-> FALSE, png |-> 150, ja |-> 500, jb |-> 100,
            jc |-> 0]
    /\ ceiling = 0 /\ ceiling2 = 0
    /\ ipc = "idle"
    /\ result = NoneResult /\ result2 = NoneResult
    /\ pipe = NoPipe
    /\ uploads = <<>>

CountersInit ==
    /\ processed_count = 0
    /\ skipped_count = 0
    /\ error_count = 0

ImgInit ==
    /\ gen \in Generators
    /\ img \in Images
    /\ ceiling \in Ceilings
    /\ ceiling2 \in Ceilings
    /\ ceiling2 <= ceiling
    /\ gen \notin BudgetGenerators => (ceiling = 0 /\ ceiling2 = 0)
    /\ ipc = "start"
    /\ result = NoneResult /\ result2 = NoneResult
    /\ pipe = NoPipe
    /\ uploads = <<>>
    /\ CountersInit
    /\ ScanIdle
    /\ RunIdle

\* a direct call of the generator's transcoder, once per budget
CallTranscoder ==
    /\ ipc = "start"
    /\ result' = Transcode(gen, img, ceiling)
    /\ result2' = Transcode(gen, img, ceiling2)
    /\ ipc' = "called"
    /\ UNCHANGED <<gen, img, ceiling, ceiling2, pipe, uploads, cntVars, scanVars, runVars>>

\* process_event: download, transcode, upload; every failure counts one error
ProcessEvent ==
    /\ ipc = "called"
    /\ \E dl \in DownloadOutcomes, up \in UploadOutcomes :
        LET data == IF dl = "ok" THEN Transcode(gen, img, ceiling) ELSE NoneResult
            calls == StageCalls(dl, data)
            issued == "upload" \in SeqRange(calls)
            uploaded == issued /\ up = "ok"
        IN  /\ pipe' = [dl |-> dl, data |-> data,
                        up |-> IF issued THEN up ELSE "none", ret |-> uploaded,
                        calls |-> calls]
            /\ uploads' = IF uploaded
                          THEN Append(uploads, UploadCall(gen, "e1", data))
                          ELSE uploads
            /\ processed_count' = IF uploaded THEN processed_count + 1
                                  ELSE processed_count
            /\ error_count' = IF uploaded THEN error_count ELSE error_count + 1
    /\ ipc' = "done"
    /\ UNCHANGED <<gen, img, ceiling, ceiling2, result, result2, skipped_count, scanVars, runVars>>

ImgNext == CallTranscoder \/ ProcessEvent

SpecImg == ImgInit /\ [][ImgNext]_vars

(***************************************************************************)
(* SpecScan: a bucket, a scanner call, uploads by process_event, and a     *)
(* second scanner call.                                                    *)
(***************************************************************************)
MaxBlobs == 3
MaxEventsCap == 2

Collection == "events"

\* the names a bucket can hold, in the order of their text, which is the
\* order the storage backend lists them in
NamesInOrder ==
    << <<Collection, Slash>>,
       BlobPath(Collection, "e1", "event_image.png"),
       BlobPath(Collection, "e1", "event_thumbnail.jpg"),
       BlobPath(Collection, "e1", "event_thumbnail.png"),
       BlobPath(Collection, "e2", "event_image.jpg"),
       BlobPath(Collection, "e2", "event_image.png"),
       BlobPath(Collection, "e2", "event_thumbnail.png"),
       <<Collection, Slash, "e3">>,
       <<Collection, Slash, "e3", Slash, "sub", Slash, "event_image.png">>,
       BlobPath("users", "e1", "event_image.png") >>

NameUniverse == SeqRange(NamesInOrder)

\* the listing of S as the backend delivers it
BackendListing(S) ==
    LET In(n) == n \in S IN SelectSeq(NamesInOrder, In)

EventIds == {"e1", "e2", "e3"}

ScanGenerators == {"thumbnails", "simple", "recent", "missing", "limited", "count"}
TimedGenerators == {"missing", "limited"}

\* creation times an object can have: None, before the cutoff, from it on
Times == {NoTime, 1, 2}

\* hosts west of UTC, on UTC and east of UTC
UtcOffsets == {-1, 0, 1}

\* the listed thumbnail objects of the bucket: the blobs the time-windowed and
\* the top-K scanners reload
ThumbnailBlobs(bucket) ==
    {m \in bucket : /\ HasPrefix(m, Collection)
                    /\ Len(Split(m)) >= 3
                    /\ Split(m)[3] \in ThumbnailFiles}

\* one scanner call of script g on the bucket
ScannerCall(g, bucket, cap, blobs, raises) ==
    CASE g = "thumbnails" -> get_events_needing_thumbnails(blobs)
      [] g = "simple" ->
            get_events_needing_images_simple(blobs, bucket, Collection, cap, raises)
      [] g = "recent" ->
            get_recent_events_needing_images(blobs, bucket, Collection, cap, raises)

\* the events of the bucket that have a thumbnail: the only ones for which
\* the recent and simple scanners call check_event_has_image
Checkable(bucket) ==
    {n[3] : n \in {m \in bucket : /\ HasPrefix(m, Collection)
                                  /\ Len(m) >= 5
                                  /\ m[5] \in ThumbnailFiles}}

\* The listings a scanner call may be handed.  get_events_needing_thumbnails
\* is specified for a listing in any order; the recent scanner walks the
\* listing backwards on purpose and the simple one stops at its cap, so these
\* two get the backend's order.
ListingsFor(g, S) ==
    IF g = "thumbnails" THEN Listings(S) ELSE {BackendListing(S)}

\* the listing arrives, or raises; each existence check may raise
ScanOutcomes(g, bucket, cap) ==
    {FailedScan} \cup
    { ScannerCall(g, bucket, cap, blobs, raises) :
        blobs \in ListingsFor(g, {n \in bucket : HasPrefix(n, Collection)}),
        raises \in IF g = "thumbnails" THEN {[e \in Checkable(bucket) |-> 0]}
                   ELSE [Checkable(bucket) -> {0, 1, 2}] }

\* the same for the two scanners that read creation times: a reload may raise
TimedScanOutcomes(g, bucket, cap, times, offset) ==
    {FailedScan} \cup
    { IF g = "missing"
      THEN get_events_needing_images_missing(blobs, times, reload_raises, offset)
      ELSE get_events_needing_images_limited(blobs, cap, times, reload_raises) :
        blobs \in ListingsFor(g, {n \in bucket : HasPrefix(n, Collection)}),
        reload_raises \in {{}} \cup {{n} : n \in ThumbnailBlobs(bucket)} }

\* the counting script: the listing arrives, or raises
CountOutcomes(bucket) ==
    {CountFailed} \cup
    {count_events_needing_images(blobs) :
        blobs \in ListingsFor("count", {n \in bucket : HasPrefix(n, Collection)})}

OutcomesOfScan(g, bucket, cap, times, offset) ==
    IF g = "count" THEN CountOutcomes(bucket)
    ELSE IF g \in TimedGenerators THEN TimedScanOutcomes(g, bucket, cap, times, offset)
    ELSE ScanOutcomes(g, bucket, cap)

ScanInit ==
    /\ sgen \in ScanGenerators
    /\ storage \in {b \in SUBSET NameUniverse : Cardinality(b) <= MaxBlobs}
    /\ max_events \in IF sgen \in {"thumbnails", "missing", "count"} THEN {1}
                      ELSE 1 .. MaxEventsCap
    /\ spc = "start"
    /\ scan1 = NoScan
    /\ scan2 = NoScan
    /\ wrote = {}
    /\ created \in IF sgen \in TimedGenerators
                   THEN [ThumbnailBlobs(storage) -> Times]
                   ELSE {[n \in ThumbnailBlobs(storage) |-> 1]}
    /\ utc_offset \in IF sgen = "missing" THEN UtcOffsets ELSE {0}
    /\ ImgIdle
    /\ RunIdle
    /\ CountersInit

\* the first run's scanner call
Scan ==
    /\ spc = "start"
    /\ scan1' \in OutcomesOfScan(sgen, storage, max_events, created, utc_offset)
    /\ spc' = "scanned"
    /\ UNCHANGED <<sgen, storage, max_events, scan2, wrote, created, utc_offset, imgVars, runVars, cntVars>>

\* process_event of a selected event runs to the end: its upload creates the
\* target object
ProcessSucceeds ==
    /\ spc = "scanned"
    /\ \E e \in SeqRange(scan1.sel) \ wrote :
        /\ storage' = storage \cup {BlobPath(Collection, e, TargetFile(sgen))}
        /\ wrote' = wrote \cup {e}
    /\ UNCHANGED <<sgen, max_events, spc, scan1, scan2, created, utc_offset, imgVars, runVars, cntVars>>

\* the next run's scanner call
Rescan ==
    /\ spc = "scanned"
    /\ scan2' \in OutcomesOfScan(sgen, storage, max_events, created, utc_offset)
    /\ spc' = "rescanned"
    /\ UNCHANGED <<sgen, storage, max_events, scan1, wrote, created, utc_offset, imgVars, runVars, cntVars>>

ScanNext == Scan \/ ProcessSucceeds \/ Rescan

SpecScan == ScanInit /\ [][ScanNext]_vars

(***************************************************************************)
(* Spec: generate_thumbnails (and the same driver of the other scripts):   *)
(* the selected events are submitted to a ThreadPoolExecutor, each worker  *)
(* thread runs process_event, the main thread takes the futures as they    *)
(* complete and then prints the summary.  process_event ends in one        *)
(* "self.x_count += 1", which a thread performs as a read of the attribute *)
(* followed by a write of the value read plus one.                         *)
(***************************************************************************)
MaxBatch == 3
MaxWorkers == 2

\* how a process_event call ends: all stages succeed, or download_image
\* returns nothing, or the transcoder returns None, or the upload returns
\* False, or a stage raises into the except clause
StageOutcomes == {"ok", "download", "transcode", "upload", "raise"}

NewTask == [pc |-> "queued", outcome |-> "none", reg |-> 0, ret |-> FALSE]

\* the calls a worker thread is executing; a call whose network request
\* never returns (no timeout is set) keeps its thread
Hung == {k \in 1 .. n_events : tasks[k].pc = "hung"}
RunningUnlessHung == {k \in 1 .. n_events : tasks[k].pc \in {"read", "write"}}
Running == {k \in 1 .. n_events : tasks[k].pc \in {"read", "write", "hung"}}

\* ThreadPoolExecutor(max_workers): a queued call starts when a thread is idle
FreeWorkerAlways(running, workers) == TRUE
FreeWorker(running, workers) == running < workers
Finished == {k \in 1 .. n_events : tasks[k].pc = "done"}

\* "except Exception as e: logger.error(...); return []" of the scanners:
\* whatever the listing loop had collected when it raised is dropped
SelectedKeepsPartial(found, raised) == found
SelectedCount(found, raised) == IF raised THEN 0 ELSE found

\* "except Exception as e: ...; sys.exit(1)" of __init__: SystemExit leaves
\* main, which builds the generator outside its try statement
AfterInitLogged(ok) == "scan"
AfterInit(ok) == IF ok THEN "scan" ELSE "exit"

Init ==
    /\ n_events = 0
    /\ max_workers \in 1 .. MaxWorkers
    /\ tasks = <<>>
    /\ completed = 0
    /\ run = "main"
    /\ firebase = "none"
    /\ listing = [found |-> 0, raised |-> FALSE]
    /\ io = FALSE
    /\ summary_logged = FALSE
    /\ exit_status = 0
    /\ CountersInit
    /\ ImgIdle
    /\ ScanIdle

\* main builds the generator: __init__ zeroes the counters and initialises
\* Firebase, and leaves the process with status 1 when that raises
InitFirebase ==
    /\ run = "main"
    /\ \E ok \in BOOLEAN :
          /\ firebase' = IF ok THEN "ok" ELSE "raised"
          /\ run' = AfterInit(ok)
          /\ exit_status' = IF ok THEN 0 ELSE 1
    /\ UNCHANGED <<n_events, max_workers, tasks, completed, listing, io,
                   summary_logged, cntVars, imgVars, scanVars>>

\* the scan of the collection: the listing loop has found some events when
\* it ends or raises; the events it returns are submitted to the pool
ScanBatch ==
    /\ run = "scan"
    /\ \E found \in 0 .. MaxBatch, raised \in BOOLEAN :
          /\ listing' = [found |-> found, raised |-> raised]
          /\ n_events' = SelectedCount(found, raised)
          /\ tasks' = [k \in 1 .. SelectedCount(found, raised) |-> NewTask]
    /\ io' = TRUE
    /\ run' = "pool"
    /\ UNCHANGED <<max_workers, completed, firebase, summary_logged, exit_status,
                   cntVars, imgVars, scanVars>>

\* a free worker takes the oldest queued call and runs its stages up to the
\* counter update
StartTask(k) ==
    /\ run = "pool"
    /\ tasks[k].pc = "queued"
    /\ \A j \in 1 .. (k - 1) : tasks[j].pc # "queued"
    /\ FreeWorker(Cardinality(Running), max_workers)
    /\ \E o \in StageOutcomes \cup {"hang"} :
          tasks' = [tasks EXCEPT ![k].pc = IF o = "hang" THEN "hung" ELSE "read",
                                 ![k].outcome = o]
    /\ UNCHANGED <<n_events, max_workers, completed, run, io, mainVars,
                   cntVars, imgVars, scanVars>>

\* the read half of "self.processed_count += 1" / "self.error_count += 1"
ReadCounter(k) ==
    /\ tasks[k].pc = "read"
    /\ tasks' = [tasks EXCEPT ![k].pc = "write",
                              ![k].reg = IF tasks[k].outcome = "ok"
                                         THEN processed_count ELSE error_count]
    /\ UNCHANGED <<n_events, max_workers, completed, run, io, mainVars,
                   cntVars, imgVars, scanVars>>

\* the write half, and the return of process_event
WriteCounter(k) ==
    /\ tasks[k].pc = "write"
    /\ IF tasks[k].outcome = "ok"
       THEN /\ processed_count' = tasks[k].reg + 1
            /\ UNCHANGED error_count
       ELSE /\ error_count' = tasks[k].reg + 1
            /\ UNCHANGED processed_count
    /\ tasks' = [tasks EXCEPT ![k].pc = "done",
                              ![k].ret = (tasks[k].outcome = "ok")]
    /\ UNCHANGED <<n_events, max_workers, completed, run, io, mainVars,
                   skipped_count, imgVars, scanVars>>

\* one turn of "for future in as_completed(futures)": process_event catches
\* every Exception, so future.result() returns
TakeCompleted ==
    /\ run = "pool"
    /\ completed < Cardinality(Finished)
    /\ completed' = completed + 1
    /\ UNCHANGED <<n_events, max_workers, tasks, run, io, mainVars,
                   cntVars, imgVars, scanVars>>

\* the loop has taken every future (or the scan selected nothing and the
\* collection is skipped with "continue"): the final summary is logged
Summary ==
    /\ run = "pool"
    /\ completed = n_events
    /\ run' = "summary"
    /\ summary_logged' = TRUE
    /\ UNCHANGED <<n_events, max_workers, tasks, completed, io, firebase,
                   listing, exit_status, cntVars, imgVars, scanVars>>

\* generate_thumbnails returns into main's try statement, no except clause
\* runs, and the interpreter leaves with status 0
Exit ==
    /\ run = "summary"
    /\ run' = "exit"
    /\ exit_status' = 0
    /\ UNCHANGED <<n_events, max_workers, tasks, completed, io, firebase,
                   listing, summary_logged, cntVars, imgVars, scanVars>>

Next ==
    \/ InitFirebase
    \/ ScanBatch
    \/ \E k \in 1 .. n_events : StartTask(k)
    \/ \E k \in 1 .. n_events : ReadCounter(k)
    \/ \E k \in 1 .. n_events : WriteCounter(k)
    \/ TakeCompleted
    \/ Summary
    \/ Exit

Spec == Init /\ [][Next]_vars

\* the same run with the main thread and the worker threads all scheduled:
\* a step that stays possible is taken
FairSpec == Spec /\ WF_vars(Next)

(***************************************************************************)
(* The candidates each budgeted upscale search encodes, as sets of         *)
(* <<format, width, height, quality>>, read off the loops' start values,   *)
(* steps and bounds.                                                       *)
(***************************************************************************)
RecentCandidates(width, height) ==
    {<<"PNG", width, height, 0>>, <<"JPEG", width, height, RecentFinalQuality>>}
    \cup {<<"JPEG", width, height, q>> : q \in {95, 85, 75, 65, 60, 55, 50}}
    \cup {<<"JPEG", TruncScale(width, t), TruncScale(height, t), q>> :
            t \in 5 .. 9, q \in {80, 70, 65, 60, 55, 50}}
    \cup {<<"JPEG", TruncLiteral07(width), TruncLiteral07(height), RecentTailQuality>>}
    \cup {<<"JPEG", TruncScale(width, t), TruncScale(height, t), RecentTailQuality>> :
            t \in 3 .. 6}

SimpleCandidates(width, height) ==
    {<<"PNG", width, height, 0>>}
    \cup {<<"JPEG", width, height, q>> : q \in {85, 75, 65, 55, 50, 45}}
    \cup {<<"JPEG", TruncScale(width, t), TruncScale(height, t), q>> :
            t \in 5 .. 9, q \in {75, 65, 55, 50, 45}}
    \cup {<<"JPEG", TruncScale(width, t), TruncScale(height, t), SimpleTailQuality>> :
            t \in 3 .. 6}

\* create_thumbnail: at every scale from 1.0 down to 0.3 that keeps both
\* sides at 100 px or more, the PNG and the JPEG qualities 85 .. 25
ThumbCandidates(new_width, new_height) ==
    UNION {{<<"PNG", TruncScale(new_width, t), TruncScale(new_height, t), 0>>}
           \cup {<<"JPEG", TruncScale(new_width, t), TruncScale(new_height, t), q>> :
                    q \in {85, 75, 65, 55, 45, 40, 35, 30, 25}} :
           t \in {u \in 3 .. 10 : /\ TruncScale(new_width, u) >= MinThumbSide
                                  /\ TruncScale(new_height, u) >= MinThumbSide}}

CandidateSize(i, c) ==
    IF c[1] = "PNG" THEN PngSize(i, c[2], c[3]) ELSE JpegSize(i, c[2], c[3], c[4])

\* no PNG/JPEG/scale combination the search of generator g tries fits the budget
NoCandidateFits(g, i, budget) ==
    LET d == UpscaleDims(i)
        cands == IF g = "recent" THEN RecentCandidates(d[1], d[2])
                 ELSE SimpleCandidates(d[1], d[2])
    IN  \A c \in cands : CandidateSize(i, c) > budget

Abs(x) == IF x < 0 THEN -x ELSE x

(***************************************************************************)
(* Claims about the transcoders and the uploaders (SpecImg)                *)
(***************************************************************************)
\* C1: for every input image and every byte ceiling, create_thumbnail returns
\* bytes of length <= the ceiling or None, never longer bytes, whichever way
\* its quality/scale loop is left.
C1_ThumbnailWithinCeiling ==
    (gen = "thumbnails" /\ ipc # "start") =>
        /\ result.kind = "None" \/ result.len <= ceiling
        /\ result2.kind = "None" \/ result2.len <= ceiling2

\* C2: the budgeted upscale search (recent and simple) returns bytes of
\* length <= max_size or None; when no candidate it tries fits it returns
\* None, and process_event then returns False, counts one error and uploads
\* nothing.
C2_UpscaleBudgetOrNone ==
    (gen \in {"recent", "simple"} /\ ipc # "start") =>
        /\ result.kind = "None" \/ result.len <= ceiling
        /\ result2.kind = "None" \/ result2.len <= ceiling2
        /\ (img.ok /\ NoCandidateFits(gen, img, ceiling)) => result.kind = "None"
        /\ (/\ img.ok
            /\ ~ResizeRaises(UpscaleDims(img)[1], UpscaleDims(img)[2])
            /\ ~NoCandidateFits(gen, img, ceiling)) => result.kind # "None"
        /\ (ipc = "done" /\ pipe.dl = "ok" /\ NoCandidateFits(gen, img, ceiling)) =>
              /\ pipe.data.kind = "None"
              /\ pipe.ret = FALSE
              /\ error_count = 1
              /\ processed_count = 0
              /\ uploads = <<>>

\* a processed event whose upscale found no candidate within a positive budget
C2_Witness ==
    /\ gen \in {"recent", "simple"}
    /\ ipc = "done"
    /\ pipe.dl = "ok"
    /\ img.ok
    /\ ceiling > 0
    /\ NoCandidateFits(gen, img, ceiling)
    /\ result.kind = "None"
    /\ error_count = 1
    /\ uploads = <<>>

AspectWithinOnePixel(i, r) ==
    r.kind # "None" => Abs(r.w * i.H - r.h * i.W) <= Max2(i.W, i.H)

\* C3: every image (w, h) that create_thumbnail or upscale_image returns for
\* an input (W, H) has |w*H - h*W| <= max(W, H).
C3_AspectRatioPreserved ==
    ipc # "start" =>
        /\ AspectWithinOnePixel(img, result)
        /\ AspectWithinOnePixel(img, result2)

\* C7: in every generator whose transcoder can emit JPEG, bytes that begin
\* with FF D8 FF are uploaded as image/jpeg and all other bytes as image/png.
C7_ContentTypeMatchesBytes ==
    gen \in BudgetGenerators =>
        \A k \in 1 .. Len(uploads) :
            uploads[k].content_type =
                (IF StartsWith(uploads[k].data, JpegSOI) THEN "image/jpeg"
                 ELSE "image/png")

Succeeded(r, budget) == r.kind # "None" /\ r.len <= budget

\* C10 as stated: for ceilings C1 > C2 on which the search succeeds, neither
\* the JPEG quality nor the dimension scale chosen for C2 is greater than the
\* one chosen for C1.
C10_QualityScaleMonotone ==
    (/\ gen \in BudgetGenerators
     /\ ipc # "start"
     /\ ceiling > ceiling2
     /\ Succeeded(result, ceiling)
     /\ Succeeded(result2, ceiling2)) =>
        /\ result2.t <= result.t
        /\ (result.kind = "JPEG" /\ result2.kind = "JPEG") => result2.q <= result.q

\* C10 amended: for ceilings C1 > C2 for which the search returns a candidate,
\* the candidate returned for C2 is never an earlier one in the search's try
\* order than the candidate returned for C1.
C10_SearchOrderMonotone ==
    (/\ gen \in BudgetGenerators
     /\ ipc # "start"
     /\ ceiling > ceiling2
     /\ result.kind # "None"
     /\ result2.kind # "None") =>
        result2.step >= result.step

\* two successful searches where the smaller ceiling got a later candidate of
\* higher JPEG quality
C10_Witness ==
    /\ gen \in BudgetGenerators
    /\ ipc # "start"
    /\ ceiling > ceiling2
    /\ Succeeded(result, ceiling)
    /\ Succeeded(result2, ceiling2)
    /\ result.kind = "JPEG" /\ result2.kind = "JPEG"
    /\ result2.step > result.step
    /\ result2.q > result.q

(***************************************************************************)
(* Claims about the scanners (SpecScan)                                    *)
(***************************************************************************)
\* the names a listing of the collection delivers
Listed(bucket) == {n \in bucket : HasPrefix(n, Collection)}

\* the names of a listing that have at least three segments
Classified(bucket) == {n \in Listed(bucket) : Len(Split(n)) >= 3}

IdsWithThird(bucket, files) ==
    {Split(n)[2] : n \in {m \in Classified(bucket) : Split(m)[3] \in files}}

\* r is what the classification rule prescribes for a listing of bucket
ExactClassification(r, bucket) ==
    /\ SeqRange(r.sel) =
          IdsWithThird(bucket, ImageFiles) \ IdsWithThird(bucket, ThumbnailFiles)
    /\ r.ids = {Split(n)[2] : n \in Classified(bucket)}
    /\ \A id \in r.ids :
          /\ r.events[id].has_image <=> id \in IdsWithThird(bucket, ImageFiles)
          /\ r.events[id].has_thumbnail <=>
                id \in IdsWithThird(bucket, ThumbnailFiles)

\* C4: for every listing, in every order, get_events_needing_thumbnails
\* returns exactly the ids that have a name whose third segment is
\* event_image.png or event_image.jpg and no name whose third segment is
\* event_thumbnail.png or event_thumbnail.jpg; names with fewer than three
\* segments create and change no event record.
C4_ClassificationExact ==
    (sgen = "thumbnails") =>
        /\ (spc = "scanned" /\ wrote = {} /\ ~scan1.failed)
              => ExactClassification(scan1, storage)
        /\ (spc = "rescanned" /\ ~scan2.failed)
              => ExactClassification(scan2, storage)

\* a scan that selected one event, left another unselected and met a name
\* with fewer than three segments
C4_Witness ==
    /\ sgen = "thumbnails" /\ spc = "scanned" /\ wrote = {} /\ ~scan1.failed
    /\ scan1.sel # <<>>
    /\ scan1.ids \ SeqRange(scan1.sel) # {}
    /\ \E n \in Listed(storage) : Len(Split(n)) < 3

C6_NoReselection ==
    (spc = "rescanned") => \A e \in wrote : e \notin SeqRange(scan2.sel)

(***************************************************************************)
(* Claims about the batch run (Spec)                                       *)
(***************************************************************************)
Returned(v) == {k \in 1 .. n_events : tasks[k].pc = "done" /\ tasks[k].ret = v}

\* C8: in a batch of N selected events in which exactly one event's download
\* fails and every stage of every other event succeeds, the other N-1 events
\* are uploaded, the batch reaches its summary, and then error_count = 1 and
\* processed_count = N-1, for every pool size and every completion order.
C8_PartialFailureIsolated ==
    (/\ run = "summary"
     /\ Cardinality({k \in 1 .. n_events : tasks[k].outcome = "download"}) = 1
     /\ \A k \in 1 .. n_events : tasks[k].outcome \in {"download", "ok"}) =>
        /\ Cardinality(Returned(TRUE)) = n_events - 1
        /\ error_count = 1
        /\ processed_count = n_events - 1

\* C9: with at least two worker threads and each counter increment being a
\* read followed by a write, no increment is lost: when the batch ends,
\* processed_count is the number of process_event calls that returned True,
\* error_count the number that returned False, and their sum the number of
\* selected events.
C9_NoLostIncrement ==
    (run = "summary" /\ max_workers >= 2) =>
        /\ processed_count = Cardinality(Returned(TRUE))
        /\ error_count = Cardinality(Returned(FALSE))
        /\ processed_count + error_count = n_events

(***************************************************************************)
(* Further claims about the scanners (SpecScan)                            *)
(***************************************************************************)
\* event e has an object with one of the given file names in the bucket
HasObject(bucket, e, files) ==
    \E f \in files : BlobPath(Collection, e, f) \in bucket

\* the files whose presence satisfies the scan's target condition
SatisfyingFiles(g) == IF g = "thumbnails" THEN ThumbnailFiles ELSE ImageFiles

\* C11: no scanner returns an event that already has its target object in
\* storage at scan time (an event_image object for the image scans, an
\* event_thumbnail object for the thumbnail scan), also when an existence
\* check raises.
C11_NeverSelectSatisfied ==
    /\ (spc = "scanned" /\ wrote = {}) =>
          \A e \in SeqRange(scan1.sel) :
              ~HasObject(storage, e, SatisfyingFiles(sgen))
    /\ (spc = "rescanned") =>
          \A e \in SeqRange(scan2.sel) :
              ~HasObject(storage, e, SatisfyingFiles(sgen))

(***************************************************************************)
(* Further claims about one process_event call (SpecImg)                   *)
(***************************************************************************)
\* C12: the stages of an event run in the order download, transcode, upload,
\* each at most once; a failure at a stage counts one error and no later
\* stage runs; at most one upload is issued, only after download and
\* transcode succeeded, and it carries the whole transcoder output.
C12_PipelineOrderNoRetry ==
    (ipc = "done") =>
        /\ pipe.calls \in {<<"download">>, <<"download", "transcode">>,
                           <<"download", "transcode", "upload">>}
        /\ (pipe.dl # "ok") => pipe.calls = <<"download">>
        /\ (pipe.dl = "ok" /\ pipe.data.kind = "None")
              => pipe.calls = <<"download", "transcode">>
        /\ ("upload" \in SeqRange(pipe.calls))
              => (pipe.dl = "ok" /\ pipe.data.kind # "None")
        /\ (~pipe.ret) => (error_count = 1 /\ processed_count = 0 /\ uploads = <<>>)
        /\ pipe.ret => (error_count = 0 /\ processed_count = 1)
        /\ Len(uploads) <= 1
        /\ (uploads # <<>>) =>
              /\ pipe.calls = <<"download", "transcode", "upload">>
              /\ uploads[1].data = result
              /\ uploads[1].data.kind # "None"

\* an event whose download and transcode succeeded and whose upload failed
C12_Witness ==
    /\ ipc = "done"
    /\ pipe.calls = <<"download", "transcode", "upload">>
    /\ pipe.up = "raise"
    /\ error_count = 1
    /\ uploads = <<>>


(***************************************************************************)
(* Further claims about a whole run (Spec)                                 *)
(***************************************************************************)
\* C13: when the scan's listing raises at any point, also after it had
\* already found qualifying events, the scan returns the empty list: no
\* process_event call is made, no counter moves, and the run still ends
\* normally, with its summary logged and exit status 0.
C13_ScanFailureSelectsNothing ==
    (listing.raised /\ run \in {"pool", "summary", "exit"}) =>
        /\ n_events = 0
        /\ tasks = <<>>
        /\ processed_count = 0 /\ error_count = 0 /\ skipped_count = 0
        /\ run = "exit" => (summary_logged /\ exit_status = 0)

C13_Witness ==
    /\ listing.raised
    /\ listing.found > 0
    /\ run = "exit"
    /\ summary_logged

\* C14: when the Firebase initialisation raises, the process has left with
\* exit status 1 before any listing, download or upload was issued and before
\* any process_event call; when it succeeds, failures of single events never
\* give a non-zero exit status, and the process only leaves after the final
\* summary was logged.
C14_FatalInitOnly ==
    /\ firebase = "raised" =>
          (run = "exit" /\ exit_status = 1 /\ ~io /\ tasks = <<>> /\ ~summary_logged)
    /\ (firebase = "ok" /\ run = "exit") =>
          (exit_status = 0 /\ summary_logged)

C14_Witness ==
    /\ firebase = "ok"
    /\ run = "exit"
    /\ exit_status = 0
    /\ n_events >= 2
    /\ \A k \in 1 .. n_events : tasks[k].outcome # "ok"
    /\ error_count >= 1


(***************************************************************************)
(* Further claims about the transcoders (SpecImg)                          *)
(***************************************************************************)
NoThumbCandidateFits(i, budget) ==
    LET d == ThumbDims(i)
    IN  \A c \in ThumbCandidates(d[1], d[2]) : CandidateSize(i, c) > budget

IsThumbFallback(i, r) ==
    LET d == ThumbDims(i)
    IN  /\ r.kind = "JPEG"
        /\ r.exit = "final"
        /\ r.q = ThumbFinalQuality
        /\ r.w = Max2(MinThumbSide, d[1] \div 2)
        /\ r.h = Max2(MinThumbSide, d[2] \div 2)
        /\ r.len = JpegSize(i, r.w, r.h, ThumbFinalQuality)

FloorAcceptance(i, budget, r) ==
    (i.ok /\ ThumbDims(i)[1] > 0 /\ ThumbDims(i)[2] > 0) =>
        /\ r.kind # "None"
        /\ NoThumbCandidateFits(i, budget) => IsThumbFallback(i, r)

ThumbQualities == <<85, 75, 65, 55, 45, 40, 35, 30, 25>>
RecentFullQualities == <<95, 85, 75, 65, 60, 55, 50>>
RecentScaledQualities == <<80, 70, 65, 60, 55, 50>>
SimpleFullQualities == <<85, 75, 65, 55, 50, 45>>
SimpleScaledQualities == <<75, 65, 55, 50, 45>>

\* one scale after the other from `first` downwards, at each the qualities
ScaledOrder(width, height, first, scales, qualities) ==
    [k \in 1 .. scales * Len(qualities) |->
        LET t == first - ((k - 1) \div Len(qualities))
        IN  <<"JPEG", TruncScale(width, t), TruncScale(height, t),
              qualities[((k - 1) % Len(qualities)) + 1]>>]

ThumbOrder(new_width, new_height) ==
    LET kept == {t \in 3 .. 10 : /\ TruncScale(new_width, t) >= MinThumbSide
                                 /\ TruncScale(new_height, t) >= MinThumbSide}
        jpegs == ScaledOrder(new_width, new_height, 10, Cardinality(kept), ThumbQualities)
    IN  [k \in 1 .. 2 * Len(jpegs) |->
            IF k % 2 = 1
            THEN <<"PNG", jpegs[(k + 1) \div 2][2], jpegs[(k + 1) \div 2][3], 0>>
            ELSE jpegs[k \div 2]]
        \o <<(<<"JPEG", Max2(MinThumbSide, new_width \div 2),
                 Max2(MinThumbSide, new_height \div 2), ThumbFinalQuality>>)>>

RecentOrder(width, height) ==
    <<(<<"PNG", width, height, 0>>)>>
    \o ScaledOrder(width, height, 10, 1, RecentFullQualities)
    \o ScaledOrder(width, height, 9, 5, RecentScaledQualities)
    \o <<(<<"JPEG", width, height, RecentFinalQuality>>),
          (<<"JPEG", TruncLiteral07(width), TruncLiteral07(height), RecentTailQuality>>)>>
    \o ScaledOrder(width, height, 6, 4, <<RecentTailQuality>>)

SimpleOrder(width, height) ==
    <<(<<"PNG", width, height, 0>>)>>
    \o ScaledOrder(width, height, 10, 1, SimpleFullQualities)
    \o ScaledOrder(width, height, 9, 5, SimpleScaledQualities)
    \o ScaledOrder(width, height, 6, 4, <<SimpleTailQuality>>)

TryOrder(g, i) ==
    CASE g = "thumbnails" -> ThumbOrder(ThumbDims(i)[1], ThumbDims(i)[2])
      [] g = "recent" -> RecentOrder(UpscaleDims(i)[1], UpscaleDims(i)[2])
      [] OTHER -> SimpleOrder(UpscaleDims(i)[1], UpscaleDims(i)[2])

\* r is the k-th candidate of the order, returned after k encodings
IsCandidate(order, k, r) ==
    /\ <<r.kind, r.w, r.h, r.q>> = order[k]
    /\ r.step = k

FirstFit(g, i, budget, r) ==
    r.kind # "None" =>
        LET order == TryOrder(g, i)
            k == r.step
        IN  /\ k \in 1 .. Len(order)
            /\ IsCandidate(order, k, r)
            /\ CandidateSize(i, order[k]) <= budget
            /\ \A j \in 1 .. (k - 1) : CandidateSize(i, order[j]) > budget

\* C16: in create_thumbnail and in both _optimize_image_size variants the
\* returned encoding is the first candidate, in the order in which the search
\* encodes (format, quality, scale) combinations, whose size is <= the
\* ceiling: no candidate encoded earlier fits, and none is encoded after it.
C16_FirstFit ==
    (gen \in {"thumbnails", "recent", "simple"} /\ ipc # "start") =>
        /\ FirstFit(gen, img, ceiling, result)
        /\ FirstFit(gen, img, ceiling2, result2)

\* both budgeted upscale searches are first-fit
C16_FirstFitUpscale ==
    (gen \in {"recent", "simple"} /\ ipc # "start") =>
        /\ FirstFit(gen, img, ceiling, result)
        /\ FirstFit(gen, img, ceiling2, result2)

\* create_thumbnail is first-fit whenever what it returns fits the ceiling
C16_FirstFitThumbLoop ==
    (gen \in {"thumbnails"} /\ ipc # "start") =>
        /\ result.len <= ceiling => FirstFit(gen, img, ceiling, result)
        /\ result2.len <= ceiling2 => FirstFit(gen, img, ceiling2, result2)


\* the dimensions the transcoder of generator g resizes the input to
ResizedDims(g, i) == IF g = "thumbnails" THEN ThumbDims(i) ELSE UpscaleDims(i)

PngFirst(g, i, budget, r) ==
    LET d == ResizedDims(g, i)
    IN  (i.ok /\ ~ResizeRaises(d[1], d[2]) /\ PngSize(i, d[1], d[2]) <= budget) =>
            /\ r.kind = "PNG"
            /\ r.w = d[1] /\ r.h = d[2]
            /\ r.len = PngSize(i, d[1], d[2])
            /\ r.step = 1

\* C17: every size-constrained search encodes the resized image as PNG
\* before any JPEG candidate and returns that PNG whenever its size is <= the
\* ceiling; create_thumbnail returns PNG bytes for every input whose resized
\* PNG fits the ceiling, whatever the dimensions of the input.
C17_PngFirst ==
    (gen \in {"thumbnails", "recent", "simple"} /\ ipc # "start") =>
        /\ PngFirst(gen, img, ceiling, result)
        /\ PngFirst(gen, img, ceiling2, result2)

\* both budgeted upscale searches return the PNG whenever it fits
C17_PngFirstUpscale ==
    (gen \in {"recent", "simple"} /\ ipc # "start") =>
        /\ PngFirst(gen, img, ceiling, result)
        /\ PngFirst(gen, img, ceiling2, result2)

\* create_thumbnail returns the PNG whenever it fits and both sides of the
\* resized image are at least 100 px
C17_PngFirstThumbLarge ==
    (/\ gen = "thumbnails"
     /\ ipc # "start"
     /\ ThumbDims(img)[1] >= MinThumbSide
     /\ ThumbDims(img)[2] >= MinThumbSide) =>
        /\ PngFirst(gen, img, ceiling, result)
        /\ PngFirst(gen, img, ceiling2, result2)


DimensionCap(r) == r.kind # "None" => Max2(r.w, r.h) <= max_dimension

\* C18: every image create_thumbnail returns, from any of its exits (PNG hit,
\* JPEG hit at any scale, final fallback), has max(width, height) <= 400.
C18_ThumbnailDimensionCap ==
    (gen = "thumbnails" /\ ipc # "start") =>
        /\ DimensionCap(result)
        /\ DimensionCap(result2)

\* a 1600 px wide input returned at the full 400 px, one from each exit
C18_Witness ==
    /\ gen = "thumbnails"
    /\ ipc # "start"
    /\ img.W = 1600
    /\ result.kind = "PNG" /\ result.w = max_dimension
    /\ result2.exit = "final" /\ result2.w = max_dimension \div 2


InsideBox(w, h) == w <= TargetBox /\ h <= TargetBox

\* C19: for every input and the target box (800, 800) the dimensions
\* upscale_image computes satisfy new_width <= 800 and new_height <= 800 with
\* the longer edge exactly 800, also for an input larger than the box; and
\* every scaled-down candidate of _optimize_image_size, so also whatever is
\* returned, stays inside the box.
C19_UpscaleBoundingBox ==
    (gen \in {"missing", "limited", "recent", "simple"} /\ ipc # "start" /\ img.ok) =>
        LET d == UpscaleDims(img)
        IN  /\ InsideBox(d[1], d[2])
            /\ Max2(d[1], d[2]) = TargetBox
            /\ result.kind # "None" => InsideBox(result.w, result.h)
            /\ result2.kind # "None" => InsideBox(result2.w, result2.h)
            /\ (gen \notin BudgetGenerators /\ result.kind # "None") =>
                    <<result.w, result.h>> = d
            /\ gen \in BudgetGenerators =>
                    LET order == TryOrder(gen, img)
                    IN  \A k \in 1 .. Len(order) : InsideBox(order[k][2], order[k][3])

\* an input larger than the box, returned as a scaled-down candidate
C19_Witness ==
    /\ gen \in {"recent", "simple"}
    /\ ipc # "start"
    /\ img.W = 1600 /\ img.H = 1000
    /\ UpscaleDims(img) = <<TargetBox, 500>>
    /\ result.kind = "JPEG"
    /\ result.t < 10
    /\ result.w < TargetBox


(***************************************************************************)
(* Further claims about the top-K scan (SpecScan)                          *)
(***************************************************************************)
\* the call ended in the except clause before it had grouped any name
ListingRaised(r) == r.failed /\ r.ids = {}

\* the thumbnail timestamp the scan holds for event e
ThumbnailDate(r, e) == r.events[e].thumbnail_date

\* events with a thumbnail object, no image object and a thumbnail timestamp
Candidates(r, bucket) ==
    {e \in r.ids : /\ HasObject(bucket, e, ThumbnailFiles)
                   /\ ~HasObject(bucket, e, ImageFiles)
                   /\ ThumbnailDate(r, e) # NoTime}

TopKNewest(r, bucket, cap) ==
    /\ Len(r.sel) <= cap
    /\ \A a, b \in 1 .. Len(r.sel) :
          a < b => /\ r.sel[a] # r.sel[b]
                   /\ ThumbnailDate(r, r.sel[a]) >= ThumbnailDate(r, r.sel[b])
    /\ SeqRange(r.sel) \subseteq Candidates(r, bucket)
    /\ \A c \in Candidates(r, bucket) \ SeqRange(r.sel) :
          \A e \in SeqRange(r.sel) : ThumbnailDate(r, c) <= ThumbnailDate(r, e)
    /\ Cardinality(Candidates(r, bucket)) <= cap =>
          SeqRange(r.sel) = Candidates(r, bucket)

\* C20: the top-K scan returns at most max_events event ids, in non-increasing
\* order of thumbnail creation timestamp, only events that have a thumbnail,
\* no image and a thumbnail timestamp; no candidate it leaves out is strictly
\* newer than a returned one; and with at most max_events candidates it
\* returns all of them.
C20_TopKNewest ==
    (sgen = "limited" /\ spc = "scanned" /\ wrote = {} /\ ~ListingRaised(scan1)) =>
        TopKNewest(scan1, storage, max_events)

\* the same for the calls whose sort did not raise
C20_TopKNewestWhenSorted ==
    (sgen = "limited" /\ spc = "scanned" /\ wrote = {} /\ ~scan1.failed) =>
        TopKNewest(scan1, storage, max_events)

\* a call that left out the older of two candidates
C20_SortedWitness ==
    /\ sgen = "limited" /\ spc = "scanned" /\ wrote = {} /\ ~scan1.failed
    /\ max_events = 1
    /\ Cardinality(Candidates(scan1, storage)) = 2
    /\ scan1.sel = <<"e2">>
    /\ ThumbnailDate(scan1, "e2") > ThumbnailDate(scan1, "e1")


(***************************************************************************)
(* Further claims about the time-windowed and the reverse scan (SpecScan)  *)
(***************************************************************************)
\* event e has a thumbnail object created at or after the instant `cutoff`
HasRecentThumbnail(bucket, times, e, cutoff) ==
    \E n \in ThumbnailBlobs(bucket) :
        /\ Split(n)[2] = e
        /\ times[n] # NoTime
        /\ times[n] >= cutoff

TimeWindowed(r, bucket, times) ==
    \A e \in EventIds :
        e \in SeqRange(r.sel) <=>
            /\ HasObject(bucket, e, ThumbnailFiles)
            /\ ~HasObject(bucket, e, ImageFiles)
            /\ HasRecentThumbnail(bucket, times, e, UtcNow - WindowLength)

\* C21: a completed time-windowed scan returns an event id if and only if the
\* event has a thumbnail object, no image object, and a thumbnail object
\* created at or after the cutoff (now minus months_back * 30 days); an event
\* whose thumbnails are all older than the cutoff is never returned.
C21_TimeWindowedSelection ==
    (sgen = "missing" /\ spc = "scanned" /\ wrote = {} /\ ~scan1.failed) =>
        TimeWindowed(scan1, storage, created)

\* the same on a host whose local time is UTC
C21_TimeWindowedOnUtcHost ==
    (sgen = "missing" /\ spc = "scanned" /\ wrote = {} /\ ~scan1.failed
        /\ utc_offset = 0) =>
        TimeWindowed(scan1, storage, created)


\* the listing the recent scan walks, last blob first
ReverseListing(bucket) == Reverse(BackendListing(Listed(bucket)))

IsThumbnailName(n) == Len(Split(n)) >= 3 /\ Split(n)[3] \in ThumbnailFiles

\* positions of the reverse listing that hold the first thumbnail of an event
FirstThumbnailAt(rev) ==
    {k \in 1 .. Len(rev) :
        /\ IsThumbnailName(rev[k])
        /\ \A j \in 1 .. (k - 1) :
              ~(IsThumbnailName(rev[j]) /\ Split(rev[j])[2] = Split(rev[k])[2])}

ReverseScanEarlyExit(r, bucket, cap) ==
    LET rev == ReverseListing(bucket)
        met == FirstThumbnailAt(rev) \cap (1 .. r.examined)
        Negative(c) == ~c[2]
        negatives == SelectSeq(r.checks, Negative)
    IN  /\ r.examined <= Len(rev)
        /\ Len(r.sel) <= cap
        \* one check per event met, in the order of the walk
        /\ Len(r.checks) = Cardinality(met)
        /\ \A a \in 1 .. Len(r.checks) :
              \E k \in met :
                  /\ Split(rev[k])[2] = r.checks[a][1]
                  /\ Cardinality(met \cap (1 .. k)) = a
        /\ \A a, b \in 1 .. Len(r.checks) : a # b => r.checks[a][1] # r.checks[b][1]
        \* the ids returned are the events whose check was negative, in that order
        /\ r.sel = [a \in 1 .. Len(negatives) |-> negatives[a][1]]
        \* the walk ends at the blob that gave the cap-th id, or at the listing's end
        /\ IF Len(r.sel) >= cap
           THEN /\ r.examined \in met
                /\ ~r.checks[Len(r.checks)][2]
           ELSE r.examined = Len(rev)

\* C22: get_recent_events_needing_images walks the listing from the last
\* blob to the first, returns at most max_events ids, namely the first
\* max_events events with a thumbnail and a negative existence check met in
\* that order, examines no blob and issues no check after the max_events-th
\* id is found, and issues each event's check at most once per scan.
C22_ReverseScanEarlyExit ==
    (sgen = "recent" /\ spc = "scanned" /\ wrote = {} /\ ~scan1.failed) =>
        ReverseScanEarlyExit(scan1, storage, max_events)

\* the walk stopped at its cap with thumbnails of another event still ahead
C22_Witness ==
    /\ sgen = "recent" /\ spc = "scanned" /\ wrote = {} /\ ~scan1.failed
    /\ max_events = 1
    /\ scan1.sel = <<"e2">>
    /\ scan1.examined = 1
    /\ Len(ReverseListing(storage)) = 3
    /\ \A k \in 2 .. 3 : Split(ReverseListing(storage)[k])[2] = "e1"
                         /\ IsThumbnailName(ReverseListing(storage)[k])


(***************************************************************************)
(* Claims about the thread pool (FairSpec)                                 *)
(***************************************************************************)
Queued == {k \in 1 .. n_events : tasks[k].pc = "queued"}

\* C23: at every moment of a batch at most max_workers process_event calls
\* are in progress, whatever the number of selected events; every selected
\* event is submitted exactly once, and is eventually started when every
\* started call returns.
C23_PoolBound ==
    /\ [](Cardinality(Running) <= max_workers)
    /\ [](run \in {"pool", "summary", "exit"} => Len(tasks) = n_events)
    /\ (run = "pool") ~> (Queued = {} \/ Hung # {})

\* more selected events than workers, the pool full and a call still queued
C23_Witness ==
    /\ run = "pool"
    /\ n_events > max_workers
    /\ max_workers >= 2
    /\ Cardinality(Running) = max_workers
    /\ Hung = {}
    /\ Queued # {}


\* C24: a call whose network request never returns keeps exactly one worker
\* slot forever and the batch never reaches its final summary; with
\* max_workers >= 2 and one such call every other selected event is still
\* processed to success or error by the remaining workers; with
\* max_workers = 1 no event queued behind the hung call is ever processed.
C24_HangContainment ==
    /\ [][\A k \in Hung : tasks'[k].pc = "hung" /\ k \in Running']_vars
    /\ [](Hung # {} => (run = "pool" /\ ~summary_logged))
    /\ (Cardinality(Hung) = 1 /\ max_workers >= 2) ~>
          (\/ \A k \in (1 .. n_events) \ Hung : tasks[k].pc = "done"
           \/ Cardinality(Hung) >= 2)
    /\ [](max_workers = 1 =>
            \A h \in Hung : \A k \in (h + 1) .. n_events : tasks[k].pc = "queued")

\* one call hung, the two others processed by the second worker, one to
\* success and one to an error, and the batch still in the pool
C24_Witness ==
    /\ run = "pool"
    /\ max_workers = 2
    /\ n_events = 3
    /\ Hung = {1}
    /\ tasks[2].pc = "done" /\ tasks[2].ret
    /\ tasks[3].pc = "done" /\ ~tasks[3].ret
    /\ completed = 2


(***************************************************************************)
(* Further claims about the bucket (SpecScan)                              *)
(***************************************************************************)
\* the one object a run may write for event e
RunTarget(g, e) ==
    BlobPath(Collection, e,
             IF g = "thumbnails" THEN "event_thumbnail.png" ELSE "event_image.png")

\* the objects the transcoders read
SourceObjects(g, bucket) ==
    {n \in bucket : /\ Len(Split(n)) >= 3
                    /\ Split(n)[3] \in (IF g = "thumbnails" THEN ImageFiles
                                         ELSE ThumbnailFiles)}

\* C25: scanning never creates, deletes or modifies a storage object; over a
\* run the only storage mutations are uploads to
\* <collection>/<id>/event_thumbnail.png (event_image.png for the image
\* generators) for ids of the run's selection, so that every source object
\* and every object of an unselected event is unchanged.
C25_FrameOfRun ==
    [][/\ storage \subseteq storage'
       /\ (spc' # spc) => (storage' = storage /\ wrote' = wrote)
       /\ wrote \subseteq wrote'
       /\ wrote' \subseteq SeqRange(scan1.sel)
       /\ storage' \ storage \subseteq {RunTarget(sgen, e) : e \in wrote' \ wrote}
       /\ \A e \in wrote' \ wrote :
             /\ RunTarget(sgen, e) \in storage'
             /\ RunTarget(sgen, e) \notin SourceObjects(sgen, storage)
       /\ SourceObjects(sgen, storage') = SourceObjects(sgen, storage)]_vars

\* a selected event got its thumbnail while an unselected event's objects and
\* the source image are still there
C25_Witness ==
    /\ sgen = "thumbnails"
    /\ spc = "scanned"
    /\ scan1.sel = <<"e1">>
    /\ wrote = {"e1"}
    /\ storage = {BlobPath(Collection, "e1", "event_image.png"),
                  BlobPath(Collection, "e1", "event_thumbnail.png"),
                  BlobPath(Collection, "e2", "event_image.png"),
                  BlobPath(Collection, "e2", "event_thumbnail.png")}


NoIdTwice(sel) == \A a, b \in 1 .. Len(sel) : a # b => sel[a] # sel[b]

\* C26: the selection a scan returns contains no event id twice, so that no
\* event is submitted to the pool twice in one run; this also holds for the
\* simple scan of an event that has event_thumbnail.png and
\* event_thumbnail.jpg and no image.
C26_SelectionWithoutDuplicates ==
    /\ spc \in {"scanned", "rescanned"} => NoIdTwice(scan1.sel)
    /\ spc = "rescanned" => NoIdTwice(scan2.sel)

\* the same for every scan but the simple one
C26_WithoutDuplicatesButSimple ==
    sgen # "simple" =>
        /\ spc \in {"scanned", "rescanned"} => NoIdTwice(scan1.sel)
        /\ spc = "rescanned" => NoIdTwice(scan2.sel)


(***************************************************************************)
(* Further claims about create_thumbnail and the searches (SpecImg)        *)
(***************************************************************************)
NotEnlarged(i, r) == r.kind # "None" => (r.w <= i.W /\ r.h <= i.H)

\* C27: create_thumbnail never enlarges: the returned image's width is <= W
\* and its height <= H for every input, also for inputs with a side shorter
\* than 100 px and inputs whose half size is below 100 px in the fallback.
C27_NeverEnlarges ==
    (gen = "thumbnails" /\ ipc # "start") =>
        /\ NotEnlarged(img, result)
        /\ NotEnlarged(img, result2)

\* the same for what the search loop returns
C27_LoopNeverEnlarges ==
    (gen = "thumbnails" /\ ipc # "start") =>
        /\ result.exit = "loop" => NotEnlarged(img, result)
        /\ result2.exit = "loop" => NotEnlarged(img, result2)


\* the encode attempts the search of generator g makes for budget
SearchAttempts(g, i, budget) ==
    LET d == ResizedDims(g, i)
    IN  IF ~i.ok \/ ResizeRaises(d[1], d[2]) THEN 0
        ELSE CASE g = "thumbnails" -> create_thumbnail(i, budget).step
               [] g = "recent" -> optimize_image_size_recent(i, budget, d[1], d[2]).step
               [] OTHER -> optimize_image_size_simple(i, budget, d[1], d[2]).step

BoundedSearch(g, i, budget) ==
    LET attempts == SearchAttempts(g, i, budget)
        order == TryOrder(g, i)
    IN  /\ attempts <= Len(order)
        /\ attempts <= (CASE g = "thumbnails" -> 145 [] g = "recent" -> 44 [] OTHER -> 36)
        /\ (i.ok /\ attempts > 0 /\ budget = 0) => attempts = Len(order)

\* C28: every size-constrained search ends after a bounded number of encode
\* attempts for every input and every ceiling, also the ceiling 0: the loops
\* go through their qualities at one scale, then lower the scale and reset
\* the quality, and the scale reaches its floor after finitely many resets.
C28_SearchTerminates ==
    (gen \in BudgetGenerators /\ ipc = "called") =>
        /\ BoundedSearch(gen, img, ceiling)
        /\ BoundedSearch(gen, img, ceiling2)

\* a search that went through all its candidates for the ceiling 0
C28_Witness ==
    /\ gen = "recent"
    /\ ipc = "called"
    /\ img.ok
    /\ ceiling = 0
    /\ result.kind = "None"
    /\ SearchAttempts(gen, img, ceiling) = 44


(***************************************************************************)
(* Further claims about the counters (Spec)                                *)
(***************************************************************************)
\* C29: skipped_count is 0 in every reachable state, since no operation
\* increments it; the summary's skipped figure is therefore 0 and the number
\* of selected events is accounted for by processed_count and error_count
\* alone.
C29_SkippedNeverCounts ==
    /\ skipped_count = 0
    /\ summary_logged => processed_count + error_count = n_events

\* the same without the sum of the two other counters
C29_SkippedAlwaysZero == skipped_count = 0

\* with one worker thread the two counters do account for the selection
C29_AccountedWithOneWorker ==
    (summary_logged /\ max_workers = 1) =>
        /\ skipped_count = 0
        /\ processed_count + error_count = n_events


(***************************************************************************)
(* Claims about the counting script (SpecScan)                             *)
(***************************************************************************)
\* what a 'thumbnail but no image' selection without a cap returns on the
\* listing, whichever existence checks raise
UnboundedSelections(bucket) ==
    LET blobs == BackendListing(Listed(bucket))
    IN  {SeqRange(get_events_needing_images_simple(
                      blobs, bucket, Collection, Len(blobs) + 1, raises).sel) :
            raises \in [Checkable(bucket) -> {0, 1, 2}]}

CountPartition(r, bucket) ==
    /\ r.events_with_both + r.events_with_only_image
          + r.events_with_only_thumbnail + r.events_with_neither = r.total_events
    /\ r.total_events = Cardinality(r.ids)
    /\ r.failed => (r.returned = 0 /\ r.total_events = 0)
    /\ ~r.failed =>
          /\ r.returned = r.events_with_only_thumbnail
          /\ \A sel \in UnboundedSelections(bucket) : r.returned = Cardinality(sel)

\* C30: in count_events_needing_images the four categories partition the
\* scanned events: their counts add up to total_events; the value returned is
\* events_with_only_thumbnail, it is the size of the set an unbounded
\* 'thumbnail but no image' selection returns on the same listing, and it is
\* 0 when the listing raises.
C30_CountPartition ==
    (sgen = "count" /\ spc = "scanned") => CountPartition(scan1, storage)

\* a count over events of three categories
C30_Witness ==
    /\ sgen = "count" /\ spc = "scanned" /\ ~scan1.failed
    /\ scan1.total_events = 3
    /\ scan1.events_with_only_thumbnail = 1
    /\ scan1.events_with_only_image = 1
    /\ scan1.events_with_neither = 1
    /\ scan1.returned = 1

====
